---------------------------- MODULE Spec2Model ----------------------------
(***************************************************************************)
(* mockcmd: the mock registry, the invocation recorder, the Command facade *)
(* of the test build (src/src/fake.rs) and the verification query          *)
(* (src/src/lib.rs).                                                       *)
(*                                                                         *)
(* Option<T> is a sequence of length at most one: None is <<>> and Some(v) *)
(* is <<v>>.  OsString and Vec<u8> values are strings; Vec<OsString> is a  *)
(* sequence of strings.  i32 values are integers in -2^31 .. 2^31-1.       *)
(***************************************************************************)
EXTENDS Integers, Sequences, FiniteSets, TLC

VARIABLES
    fixture,    \* the test being run: the values its calls are drawn from
    registry,   \* MOCK_REGISTRY: Vec<MockDefinition>
    executed,   \* EXECUTED_COMMANDS: Vec<ExecutedCommand>
    cmd,        \* Option<Command>: the Command object the test holds
    ret,        \* what the last call returned
    locks,      \* the two Mutexes: for each store the thread that holds it
    threads     \* for each thread: where it is in the call it is making

vars == <<fixture, registry, executed, cmd, ret, locks, threads>>

(***************************************************************************)
(* Bounds.                                                                 *)
(***************************************************************************)
MaxRegistry == 2

MaxExecuted == 2

NThreads == 2

(***************************************************************************)
(* Option<T>.                                                              *)
(***************************************************************************)
None == <<>>

Some(v) == <<v>>

unwrap_or(o, d) == IF o = None THEN d ELSE o[1]

Opt(S) == {None} \cup {Some(v) : v \in S}

(***************************************************************************)
(* The tests of the crate, as the sets of values their calls use.          *)
(* argLists are the argument sequences a Command or a mock is given, by    *)
(* arg/with_arg one at a time or by args as a whole.                       *)
(***************************************************************************)
NoResult == [exit_status |-> None, stdout |-> None, stderr |-> None]

\* i32: the type of a mock's exit status.
MaxI32 == 2147483647

MinI32 == (-MaxI32) - 1

StatusValues == {0, 1, 256, -1, MaxI32, MinI32}

GitMocks ==
    [name     |-> "git_mocks",
     programs |-> {"git"},
     argLists |-> {<<"add">>, <<"add", ".">>, <<".", "add">>},
     dirs     |-> {},
     results  |-> {NoResult}]

EchoMocks ==
    [name     |-> "using_test_code_mocked",
     programs |-> {"echo"},
     argLists |-> {<<"hello">>, <<"world">>},
     dirs     |-> {},
     results  |-> {NoResult,
                   [exit_status |-> Some(1), stdout |-> Some("WORLD"),
                    stderr |-> Some("failed")]}]

FileEtcMock ==
    [name     |-> "file_etc_mock",
     programs |-> {"file"},
     argLists |-> {<<"etc">>},
     dirs     |-> {"/"},
     results  |-> {[exit_status |-> None, stdout |-> Some("etc: directory"),
                    stderr |-> None]}]

TwoPrograms ==
    [name     |-> "two_programs",
     programs |-> {"git", "echo"},
     argLists |-> {},
     dirs     |-> {},
     results  |-> {NoResult,
                   [exit_status |-> None, stdout |-> Some("hello world"),
                    stderr |-> None]}]

StatusMocks ==
    [name     |-> "with_status",
     programs |-> {"grep"},
     argLists |-> {},
     dirs     |-> {},
     results  |-> {NoResult} \cup
                  {[exit_status |-> Some(s), stdout |-> None, stderr |-> None] :
                      s \in StatusValues}]

Fixtures == {GitMocks, EchoMocks, FileEtcMock, TwoPrograms, StatusMocks}

ArgLists == {<<>>} \cup fixture.argLists

ArgValues == UNION {{l[k] : k \in DOMAIN l} : l \in fixture.argLists}

(***************************************************************************)
(* CommandMockBuilder (src/src/lib.rs).  Every setter takes the builder by *)
(* value and returns it.                                                   *)
(***************************************************************************)
mock(program) ==
    [program     |-> program,
     args        |-> <<>>,
     current_dir |-> None,
     exit_status |-> None,
     stdout      |-> None,
     stderr      |-> None]

Builder_current_dir(b, dir) == [b EXCEPT !.current_dir = Some(dir)]

\* Mutant: with_args extends the arguments, as Command::args does.
with_args_extending(b, args) == [b EXCEPT !.args = b.args \o args]

with_args(b, args) == [b EXCEPT !.args = args]

with_arg(b, arg) == [b EXCEPT !.args = Append(b.args, arg)]

\* Mutant: a status already set is kept.
with_status_keep_first(b, status) ==
    IF b.exit_status = None THEN [b EXCEPT !.exit_status = Some(status)] ELSE b

with_status(b, status) == [b EXCEPT !.exit_status = Some(status)]

with_stdout(b, stdout) == [b EXCEPT !.stdout = Some(stdout)]

with_stderr(b, stderr) == [b EXCEPT !.stderr = Some(stderr)]

\* The definition takes every field of the builder, current_dir included.
build(b) ==
    [program     |-> b.program,
     args        |-> b.args,
     current_dir |-> b.current_dir,
     exit_status |-> b.exit_status,
     stdout      |-> b.stdout,
     stderr      |-> b.stderr]

(***************************************************************************)
(* The builder chains a test writes:                                       *)
(*   mock(p).with_arg(a1)..with_arg(an).current_dir(d).with_status(s)      *)
(*          .with_stdout(o).with_stderr(e)                                 *)
(* where a setter is called only for a value that is given.                *)
(***************************************************************************)
RECURSIVE WithArgsChain(_, _)
WithArgsChain(b, args) ==
    IF args = <<>> THEN b
    ELSE WithArgsChain(with_arg(b, Head(args)), Tail(args))

Chain(p, args, d, r) ==
    LET b1 == WithArgsChain(mock(p), args)
        b2 == IF d = None THEN b1 ELSE Builder_current_dir(b1, d[1])
        b3 == IF r.exit_status = None THEN b2 ELSE with_status(b2, r.exit_status[1])
        b4 == IF r.stdout = None THEN b3 ELSE with_stdout(b3, r.stdout[1])
    IN  IF r.stderr = None THEN b4 ELSE with_stderr(b4, r.stderr[1])

Builders ==
    {Chain(p, args, d, r) : p \in fixture.programs, args \in ArgLists,
                            d \in Opt(fixture.dirs), r \in fixture.results}

(***************************************************************************)
(* The stores (src/src/fake.rs).                                           *)
(***************************************************************************)
RECURSIVE find_from(_, _, _)
find_from(i, program, args) ==
    IF i > Len(registry) THEN None
    ELSE IF registry[i].program = program /\ registry[i].args = args
         THEN Some(registry[i])
         ELSE find_from(i + 1, program, args)

\* Mutant: a mock matches every invocation its arguments are a prefix of.
RECURSIVE find_prefix_from(_, _, _)
find_prefix_from(i, program, args) ==
    IF i > Len(registry) THEN None
    ELSE IF /\ registry[i].program = program
            /\ Len(registry[i].args) <= Len(args)
            /\ registry[i].args = SubSeq(args, 1, Len(registry[i].args))
         THEN Some(registry[i])
         ELSE find_prefix_from(i + 1, program, args)

find_mock_prefix(program, args) == find_prefix_from(1, program, args)

\* Mutant: the scan keeps the last match instead of returning at the first.
RECURSIVE find_last_from(_, _, _)
find_last_from(i, program, args) ==
    IF i < 1 THEN None
    ELSE IF registry[i].program = program /\ registry[i].args = args
         THEN Some(registry[i])
         ELSE find_last_from(i - 1, program, args)

find_mock_last(program, args) == find_last_from(Len(registry), program, args)

find_mock(program, args) == find_from(1, program, args)

\* Mutant: an invocation is recorded only when a mock answers it.
record_only_when_mocked(program, args) ==
    IF find_mock(program, args) = None THEN executed
    ELSE Append(executed, [program |-> program, args |-> args, current_dir |-> None])

\* Mutant: the log holds the latest invocation only.
record_latest_only(program, args) ==
    <<[program |-> program, args |-> args, current_dir |-> None]>>

\* ExecutedCommand is built from the program and the arguments alone; the
\* working directory the verification query reads is never given a value.
record_executed_command(program, args) ==
    Append(executed, [program |-> program, args |-> args, current_dir |-> None])

get_executed_commands == executed

(***************************************************************************)
(* process::ExitStatus on unix: the raw wait status, an i32.               *)
(***************************************************************************)
\* Mutant: the status is cut to the 8 bits a process can exit with.
exit_code_low_byte(code) == [raw |-> code % 256]

exit_code(code) == [raw |-> code]

success(status) == status.raw = 0

(***************************************************************************)
(* Command (src/src/fake.rs).                                              *)
(***************************************************************************)
\* current_dir is the working directory of inner, the process::Command.
new(program) == [program |-> program, args |-> <<>>, current_dir |-> None]

arg(c, a) == [c EXCEPT !.args = Append(@, a)]

RECURSIVE args_loop(_, _)
args_loop(c, as) ==
    IF as = <<>> THEN c ELSE args_loop(arg(c, Head(as)), Tail(as))

\* Mutant: an unmocked command fails as a shell does for a missing program.
synthesize_miss_fails(found) ==
    IF found # None
    THEN [exit_status |-> unwrap_or(found[1].exit_status, 0),
          stdout      |-> unwrap_or(found[1].stdout, ""),
          stderr      |-> unwrap_or(found[1].stderr, "")]
    ELSE [exit_status |-> 127, stdout |-> "", stderr |-> ""]

\* Mutant: the mock's stderr is dropped.
synthesize_no_stderr(found) ==
    IF found # None
    THEN [exit_status |-> unwrap_or(found[1].exit_status, 0),
          stdout      |-> unwrap_or(found[1].stdout, ""),
          stderr      |-> ""]
    ELSE [exit_status |-> 0, stdout |-> "", stderr |-> ""]

\* Command::output, lines 83-94: the result a lookup is turned into.
synthesize(found) ==
    IF found # None
    THEN [exit_status |-> unwrap_or(found[1].exit_status, 0),
          stdout      |-> unwrap_or(found[1].stdout, ""),
          stderr      |-> unwrap_or(found[1].stderr, "")]
    ELSE [exit_status |-> 0, stdout |-> "", stderr |-> ""]

\* Command::output, lines 83-100: Ok(process::Output {..}).
output(program, args) ==
    LET r == synthesize(find_mock(program, args))
    IN  [op     |-> "output",
         ok     |-> TRUE,
         status |-> exit_code(r.exit_status),
         stdout |-> r.stdout,
         stderr |-> r.stderr]

(***************************************************************************)
(* was_command_executed (src/src/lib.rs).                                  *)
(***************************************************************************)
split_first(pieces) ==
    IF pieces = <<>> THEN None
    ELSE Some([first |-> Head(pieces), rest |-> Tail(pieces)])

RECURSIVE any_from(_, _, _, _, _)
any_from(cmds, i, program_os, args_os, dir) ==
    IF i > Len(cmds) THEN FALSE
    ELSE IF /\ cmds[i].program = program_os
            /\ cmds[i].args = args_os
            /\ cmds[i].current_dir = dir
         THEN TRUE
         ELSE any_from(cmds, i + 1, program_os, args_os, dir)

\* Mutant: the working directory is not compared.
RECURSIVE any_dir_from(_, _, _, _)
any_dir_from(cmds, i, program_os, args_os) ==
    IF i > Len(cmds) THEN FALSE
    ELSE IF cmds[i].program = program_os /\ cmds[i].args = args_os
         THEN TRUE
         ELSE any_dir_from(cmds, i + 1, program_os, args_os)

was_command_executed_any_dir(pieces, current_dir) ==
    LET sf == split_first(pieces)
    IN  IF sf = None
        THEN [panicked |-> TRUE]
        ELSE [panicked |-> FALSE,
              value    |-> any_dir_from(get_executed_commands, 1,
                                        sf[1].first, sf[1].rest)]

\* Mutant: an empty pieces is answered false instead of unwrapped.
was_command_executed_lenient(pieces, current_dir) ==
    LET sf == split_first(pieces)
    IN  IF sf = None
        THEN [panicked |-> FALSE, value |-> FALSE]
        ELSE [panicked |-> FALSE,
              value    |-> any_from(get_executed_commands, 1,
                                    sf[1].first, sf[1].rest, current_dir)]

\* Mutant: only an invocation a mock answers counts as executed.
was_command_executed_mocked(pieces, current_dir) ==
    LET sf == split_first(pieces)
    IN  IF sf = None
        THEN [panicked |-> TRUE]
        ELSE [panicked |-> FALSE,
              value    |-> /\ any_from(get_executed_commands, 1,
                                       sf[1].first, sf[1].rest, current_dir)
                           /\ find_mock(sf[1].first, sf[1].rest) # None]

\* split_first().unwrap() panics on an empty pieces.
was_command_executed(pieces, current_dir) ==
    LET sf == split_first(pieces)
    IN  IF sf = None
        THEN [panicked |-> TRUE]
        ELSE [panicked |-> FALSE,
              value    |-> any_from(get_executed_commands, 1,
                                    sf[1].first, sf[1].rest, current_dir)]

(***************************************************************************)
(* The state machine.                                                      *)
(***************************************************************************)
NoRet == [op |-> "none"]

Threads == 1..NThreads

\* Mutex::new: both statics start unlocked.
Unlocked == [l \in {"registry", "recorder"} |-> None]

\* A thread that is in no call.
Idle == [pc |-> "idle", call |-> [op |-> "none"], local |-> <<>>]

AllIdle == [t \in Threads |-> Idle]

\* One thread makes the calls, each from start to end.
Init ==
    /\ fixture \in Fixtures
    /\ registry = <<>>
    /\ executed = <<>>
    /\ cmd = None
    /\ ret = NoRet
    /\ locks = Unlocked
    /\ threads = AllIdle

\* Mutant: a definition with the signature of a registered one takes its
\* place.
Register_overriding(b) ==
    /\ Len(registry) < MaxRegistry
    /\ registry' =
          IF \E i \in DOMAIN registry :
                 registry[i].program = b.program /\ registry[i].args = b.args
          THEN [i \in DOMAIN registry |->
                   IF registry[i].program = b.program /\ registry[i].args = b.args
                   THEN build(b) ELSE registry[i]]
          ELSE Append(registry, build(b))
    /\ ret' = NoRet
    /\ UNCHANGED <<locks, threads, fixture, executed, cmd>>

\* mock(..)...register()
Register(b) ==
    /\ Len(registry) < MaxRegistry
    /\ registry' = Append(registry, build(b))
    /\ ret' = NoRet
    /\ UNCHANGED <<locks, threads, fixture, executed, cmd>>

Command_new(program) ==
    /\ cmd' = Some(new(program))
    /\ ret' = NoRet
    /\ UNCHANGED <<locks, threads, fixture, registry, executed>>

Command_arg(a) ==
    /\ cmd # None
    /\ arg(cmd[1], a).args \in ArgLists
    /\ cmd' = Some(arg(cmd[1], a))
    /\ ret' = NoRet
    /\ UNCHANGED <<locks, threads, fixture, registry, executed>>

Command_args(as) ==
    /\ cmd # None
    /\ args_loop(cmd[1], as).args \in ArgLists
    /\ cmd' = Some(args_loop(cmd[1], as))
    /\ ret' = NoRet
    /\ UNCHANGED <<locks, threads, fixture, registry, executed>>

\* The facade of the test build has no current_dir of its own in fake.rs;
\* the tests call it, and it keeps the directory with the command.
Command_current_dir(dir) ==
    /\ cmd # None
    /\ cmd' = Some([cmd[1] EXCEPT !.current_dir = Some(dir)])
    /\ ret' = NoRet
    /\ UNCHANGED <<locks, threads, fixture, registry, executed>>

\* Mutant: output() uses the command up.
Command_output_once ==
    /\ cmd # None
    /\ Len(executed) < MaxExecuted
    /\ executed' = record_executed_command(cmd[1].program, cmd[1].args)
    /\ ret' = output(cmd[1].program, cmd[1].args)
    /\ cmd' = None
    /\ UNCHANGED <<locks, threads, fixture, registry>>

Command_output ==
    /\ cmd # None
    /\ Len(executed) < MaxExecuted
    /\ executed' = record_executed_command(cmd[1].program, cmd[1].args)
    /\ ret' = output(cmd[1].program, cmd[1].args)
    /\ UNCHANGED <<locks, threads, fixture, registry, cmd>>

Pieces == {<<>>} \cup {<<p>> \o as : p \in fixture.programs, as \in ArgLists}

\* Mutant: the query takes the log out of the recorder (mem::take) instead
\* of cloning it.
WasCommandExecuted_taking(pieces, current_dir) ==
    /\ ret' = [op |-> "was_command_executed", pieces |-> pieces,
               current_dir |-> current_dir]
              @@ was_command_executed(pieces, current_dir)
    /\ executed' = IF pieces = <<>> THEN executed ELSE <<>>
    /\ UNCHANGED <<locks, threads, fixture, registry, cmd>>

WasCommandExecuted(pieces, current_dir) ==
    /\ ret' = [op |-> "was_command_executed", pieces |-> pieces,
               current_dir |-> current_dir]
              @@ was_command_executed(pieces, current_dir)
    /\ UNCHANGED <<locks, threads, fixture, registry, executed, cmd>>

Next ==
    \/ \E b \in Builders : Register(b)
    \/ \E p \in fixture.programs : Command_new(p)
    \/ \E a \in ArgValues : Command_arg(a)
    \/ \E as \in ArgLists : Command_args(as)
    \/ \E d \in fixture.dirs : Command_current_dir(d)
    \/ Command_output
    \/ \E pieces \in Pieces, d \in Opt(fixture.dirs) : WasCommandExecuted(pieces, d)

Spec == Init /\ [][Next]_vars

\* The calls that write a store or the command, without the read-only
\* verification query (which leaves registry, executed and cmd as they are).
NextMocking ==
    \/ \E b \in Builders : Register(b)
    \/ \E p \in fixture.programs : Command_new(p)
    \/ \E a \in ArgValues : Command_arg(a)
    \/ \E as \in ArgLists : Command_args(as)
    \/ \E d \in fixture.dirs : Command_current_dir(d)
    \/ Command_output

SpecMocking == Init /\ [][NextMocking]_vars

(***************************************************************************)
(* What the properties below are stated with: signatures compared element  *)
(* by element, and the registered definitions a signature has.             *)
(***************************************************************************)
SameArgs(xs, ys) ==
    /\ Len(xs) = Len(ys)
    /\ \A k \in 1..Len(xs) : xs[k] = ys[k]

Matches(i, program, as) ==
    /\ registry[i].program = program
    /\ SameArgs(registry[i].args, as)

Registered(program, as) == \E i \in DOMAIN registry : Matches(i, program, as)

FirstIndex(program, as) ==
    CHOOSE i \in DOMAIN registry :
        /\ Matches(i, program, as)
        /\ \A j \in 1..(i - 1) : ~Matches(j, program, as)

IsDefault(r) ==
    /\ r.ok
    /\ r.status.raw = 0
    /\ success(r.status)
    /\ r.stdout = ""
    /\ r.stderr = ""

\* The result a definition stands for: what is unset is 0 or empty.
Answers(r, m) ==
    /\ r.ok
    /\ r.status.raw = (IF m.exit_status = None THEN 0 ELSE m.exit_status[1])
    /\ r.stdout = (IF m.stdout = None THEN "" ELSE m.stdout[1])
    /\ r.stderr = (IF m.stderr = None THEN "" ELSE m.stderr[1])

InLog(pieces, dir) ==
    \E i \in DOMAIN executed :
        /\ executed[i].program = pieces[1]
        /\ Len(executed[i].args) = Len(pieces) - 1
        /\ \A k \in 1..Len(executed[i].args) : executed[i].args[k] = pieces[k + 1]
        /\ executed[i].current_dir = dir

Outputs == ret.op = "output"

Asked == ret.op = "was_command_executed"

\* C1: every output() call appends exactly one ExecutedCommand, with the
\* command's program and arguments, to the recorder, whether or not a mock
\* matches; the entries before it stay and the registry gets nothing.
C1_RecordBeforeLookup ==
    [][ret'.op = "output" =>
          /\ Len(executed') = Len(executed) + 1
          /\ SubSeq(executed', 1, Len(executed)) = executed
          /\ executed'[Len(executed')].program = cmd[1].program
          /\ SameArgs(executed'[Len(executed')].args, cmd[1].args)
          /\ registry' = registry]_vars

\* Two calls recorded: the first answered by a mock, the second by none.
C1_Witness ==
    /\ Outputs
    /\ Len(executed) = 2
    /\ Registered(executed[1].program, executed[1].args)
    /\ ~Registered(executed[2].program, executed[2].args)

\* C2: output() of a command no registered definition matches returns Ok
\* with exit status 0 (success), empty stdout and empty stderr.
C2_DefaultOnMiss ==
    (Outputs /\ ~Registered(cmd[1].program, cmd[1].args)) => IsDefault(ret)

\* An unmocked call with a registry that holds other definitions.
C2_Witness ==
    /\ Outputs
    /\ Len(registry) = 2
    /\ ~Registered(cmd[1].program, cmd[1].args)
    /\ \E i \in DOMAIN registry : registry[i].stdout # None

\* C3: output() of a command a registered definition matches returns that
\* definition's exit status, stdout and stderr, an unset exit status being 0
\* and an unset stdout or stderr empty.
C3_MockedResult ==
    (Outputs /\ Registered(cmd[1].program, cmd[1].args)) =>
        \E i \in DOMAIN registry :
            /\ Matches(i, cmd[1].program, cmd[1].args)
            /\ Answers(ret, registry[i])

\* A mock with status 1, stdout and stderr answered a call, after one with
\* nothing set answered an earlier call.
C3_Witness ==
    /\ Outputs
    /\ Len(executed) = 2
    /\ Registered(cmd[1].program, cmd[1].args)
    /\ ret.status.raw = 1 /\ ret.stdout = "WORLD" /\ ret.stderr = "failed"
    /\ \E i \in DOMAIN registry :
          /\ Matches(i, executed[1].program, executed[1].args)
          /\ registry[i].exit_status = None
          /\ registry[i].stdout = None

\* C4: find returns a definition iff a registered definition has the same
\* program and the same arguments, element by element; and what it returns
\* is a registered definition of just that signature.
C4_ExactMatch ==
    \A p \in fixture.programs, as \in ArgLists :
        LET f == find_mock(p, as)
        IN  /\ (f # None) <=> Registered(p, as)
            /\ f # None =>
                  /\ f[1].program = p
                  /\ SameArgs(f[1].args, as)
                  /\ \E i \in DOMAIN registry : registry[i] = f[1]

\* "git add ." is mocked: its prefix, its reordering and the bare program
\* find nothing, and the command itself got the answer.
C4_Witness ==
    /\ Outputs
    /\ cmd[1].args = <<"add", ".">>
    /\ find_mock("git", <<"add", ".">>) # None
    /\ find_mock("git", <<"add">>) = None
    /\ find_mock("git", <<".", "add">>) = None
    /\ find_mock("git", <<>>) = None

\* C5: the working directory is part of the signature a mock is looked up
\* with: a command whose every same-program, same-arguments mock was
\* registered with a current_dir other than the command's own gets the
\* default result.
C5_DirInSignature ==
    (/\ Outputs
     /\ \A i \in DOMAIN registry :
           Matches(i, cmd[1].program, cmd[1].args) =>
               /\ registry[i].current_dir # None
               /\ registry[i].current_dir # cmd[1].current_dir)
    => IsDefault(ret)

\* C6: of the definitions registered with one signature every lookup
\* returns the first, and goes on returning it whatever is registered or
\* executed next.
C6_FirstRegistrationWins ==
    [][\A p \in fixture.programs, as \in ArgLists :
          LET f == find_mock(p, as)
          IN  f # None =>
                /\ f = Some(registry[FirstIndex(p, as)])
                /\ find_mock(p, as)' = f
                /\ (ret'.op = "output" /\ cmd'[1].program = p /\ cmd'[1].args = as)
                      => Answers(ret', f[1])]_vars

\* Two definitions of one signature with different stdout: the call got the
\* first one's.
C6_Witness ==
    /\ Outputs
    /\ Len(registry) = 2
    /\ Matches(1, cmd[1].program, cmd[1].args)
    /\ Matches(2, cmd[1].program, cmd[1].args)
    /\ registry[1].stdout # registry[2].stdout
    /\ Answers(ret, registry[1])
    /\ ~Answers(ret, registry[2])

C8_RecordedWithDir ==
    Outputs =>
        was_command_executed(<<cmd[1].program>> \o cmd[1].args, cmd[1].current_dir)
            = [panicked |-> FALSE, value |-> TRUE]

\* C9: was_command_executed with an empty pieces panics, whatever the
\* recorder holds and whatever current_dir is given.
C9_EmptyPiecesPanics ==
    /\ \A d \in Opt(fixture.dirs) :
          was_command_executed(<<>>, d) = [panicked |-> TRUE]
    /\ (Asked /\ ret.pieces = <<>>) =>
          /\ ret.panicked
          /\ "value" \notin DOMAIN ret

\* Asked with an empty pieces and a directory, the recorder holding a call.
C9_Witness ==
    /\ Asked
    /\ ret.pieces = <<>>
    /\ ret.current_dir # None
    /\ executed # <<>>
    /\ ret.panicked

\* C10: the status of a synthesized result reports success iff the integer
\* exit status it was made from (the matching mock's, 0 when unset or
\* unmocked) is 0.
C10_StatusTranslation ==
    Outputs =>
        LET p == cmd[1].program
            as == cmd[1].args
            code == IF Registered(p, as)
                    THEN unwrap_or(registry[FirstIndex(p, as)].exit_status, 0)
                    ELSE 0
        IN  success(ret.status) <=> (code = 0)

\* A mock registered with_status(256) answered: the result is a failure.
C10_Witness ==
    /\ Outputs
    /\ Registered(cmd[1].program, cmd[1].args)
    /\ registry[FirstIndex(cmd[1].program, cmd[1].args)].exit_status = Some(256)
    /\ ~success(ret.status)

(***************************************************************************)
(* A builder chain call by call.  A setter takes the builder the call      *)
(* before it returned (self) and returns the builder it has changed; ret   *)
(* keeps both, with the argument of the call.                              *)
(***************************************************************************)
OutputMocks ==
    [name     |-> "with_stdout_with_stderr",
     programs |-> {"echo"},
     argLists |-> {},
     dirs     |-> {},
     results  |-> {[exit_status |-> None, stdout |-> Some("WORLD"),
                    stderr |-> Some("failed")],
                   [exit_status |-> None, stdout |-> Some("hello"),
                    stderr |-> Some("error")]}]

DirMocks ==
    [name     |-> "current_dir",
     programs |-> {"file"},
     argLists |-> {<<"etc">>},
     dirs     |-> {"/", "/tmp"},
     results  |-> {NoResult}]

BuilderFixtures == {GitMocks, StatusMocks, OutputMocks, DirMocks}

StatusArgs == {r.exit_status[1] : r \in {x \in fixture.results : x.exit_status # None}}

StdoutArgs == {r.stdout[1] : r \in {x \in fixture.results : x.stdout # None}}

StderrArgs == {r.stderr[1] : r \in {x \in fixture.results : x.stderr # None}}

HasBuilder == "builder" \in DOMAIN ret

Call(op, input, b) == [op |-> op, self |-> ret.builder, input |-> input, builder |-> b]

InitBuilder ==
    /\ fixture \in BuilderFixtures
    /\ registry = <<>>
    /\ executed = <<>>
    /\ cmd = None
    /\ ret = NoRet
    /\ locks = Unlocked
    /\ threads = AllIdle

Builder_mock(program) ==
    /\ ret' = [op |-> "mock", input |-> program, builder |-> mock(program)]
    /\ UNCHANGED <<locks, threads, fixture, registry, executed, cmd>>

Builder_with_arg(a) ==
    /\ HasBuilder
    /\ with_arg(ret.builder, a).args \in ArgLists
    /\ ret' = Call("with_arg", a, with_arg(ret.builder, a))
    /\ UNCHANGED <<locks, threads, fixture, registry, executed, cmd>>

Builder_with_args(as) ==
    /\ HasBuilder
    /\ with_args(ret.builder, as).args \in ArgLists
    /\ ret' = Call("with_args", as, with_args(ret.builder, as))
    /\ UNCHANGED <<locks, threads, fixture, registry, executed, cmd>>

Builder_set_current_dir(dir) ==
    /\ HasBuilder
    /\ ret' = Call("current_dir", dir, Builder_current_dir(ret.builder, dir))
    /\ UNCHANGED <<locks, threads, fixture, registry, executed, cmd>>

Builder_with_status(status) ==
    /\ HasBuilder
    /\ ret' = Call("with_status", status, with_status(ret.builder, status))
    /\ UNCHANGED <<locks, threads, fixture, registry, executed, cmd>>

Builder_with_stdout(stdout) ==
    /\ HasBuilder
    /\ ret' = Call("with_stdout", stdout, with_stdout(ret.builder, stdout))
    /\ UNCHANGED <<locks, threads, fixture, registry, executed, cmd>>

Builder_with_stderr(stderr) ==
    /\ HasBuilder
    /\ ret' = Call("with_stderr", stderr, with_stderr(ret.builder, stderr))
    /\ UNCHANGED <<locks, threads, fixture, registry, executed, cmd>>

\* register(self): the builder is consumed and nothing is returned.
Builder_register ==
    /\ HasBuilder
    /\ Len(registry) < MaxRegistry
    /\ registry' = Append(registry, build(ret.builder))
    /\ ret' = [op |-> "register", self |-> ret.builder]
    /\ UNCHANGED <<locks, threads, fixture, executed, cmd>>

NextBuilder ==
    \/ \E p \in fixture.programs : Builder_mock(p)
    \/ \E a \in ArgValues : Builder_with_arg(a)
    \/ \E as \in ArgLists : Builder_with_args(as)
    \/ \E d \in fixture.dirs : Builder_set_current_dir(d)
    \/ \E st \in StatusArgs : Builder_with_status(st)
    \/ \E o \in StdoutArgs : Builder_with_stdout(o)
    \/ \E e \in StderrArgs : Builder_with_stderr(e)
    \/ Builder_register

SpecBuilder == InitBuilder /\ [][NextBuilder]_vars

\* The fields of b and c other than those in fields are equal.
SameExcept(b, c, fields) ==
    \A f \in {"program", "args", "current_dir", "exit_status", "stdout", "stderr"}
             \ fields : b[f] = c[f]

\* C11: with_arg(a) puts a at the end of the arguments and changes nothing
\* else; with_args(xs) makes the arguments xs, whatever they were; the
\* definition registered has the arguments the calls have left.
C11_ArgAppendsArgsReplace ==
    /\ ret.op = "with_arg" =>
          /\ Len(ret.builder.args) = Len(ret.self.args) + 1
          /\ SubSeq(ret.builder.args, 1, Len(ret.self.args)) = ret.self.args
          /\ ret.builder.args[Len(ret.builder.args)] = ret.input
          /\ SameExcept(ret.builder, ret.self, {"args"})
    /\ ret.op = "with_args" =>
          /\ SameArgs(ret.builder.args, ret.input)
          /\ SameExcept(ret.builder, ret.self, {"args"})
    /\ ret.op = "register" =>
          SameArgs(registry[Len(registry)].args, ret.self.args)

\* with_args(<<".", "add">>) was called on a builder that held "add".
C11_Witness ==
    /\ ret.op = "with_args"
    /\ ret.self.args = <<"add">>
    /\ ret.input = <<".", "add">>
    /\ ret.builder.args = <<".", "add">>
    /\ registry # <<>>
    /\ registry[1].args = <<"add", ".">>

SetterField(op) ==
    CASE op = "with_args"   -> "args"
      [] op = "current_dir" -> "current_dir"
      [] op = "with_status" -> "exit_status"
      [] op = "with_stdout" -> "stdout"
      [] op = "with_stderr" -> "stderr"

SetterValue(op, input) == IF op = "with_args" THEN input ELSE Some(input)

ApplySetter(op, b, input) ==
    CASE op = "with_args"   -> with_args(b, input)
      [] op = "current_dir" -> Builder_current_dir(b, input)
      [] op = "with_status" -> with_status(b, input)
      [] op = "with_stdout" -> with_stdout(b, input)
      [] op = "with_stderr" -> with_stderr(b, input)

Overwriting == {"with_args", "current_dir", "with_status", "with_stdout", "with_stderr"}

\* C12: a setter other than with_arg leaves its own field at the value of
\* the call, whatever the field held, and every other field as it was;
\* the same call again changes nothing; and the definition registered has
\* the fields of the builder.
C12_SettersOverwrite ==
    /\ ret.op \in Overwriting =>
          /\ ret.builder[SetterField(ret.op)] = SetterValue(ret.op, ret.input)
          /\ SameExcept(ret.builder, ret.self, {SetterField(ret.op)})
          /\ ApplySetter(ret.op, ret.builder, ret.input) = ret.builder
          /\ ApplySetter(ret.op, ret.self, ret.input) = ret.builder
    /\ ret.op = "register" =>
          SameExcept(registry[Len(registry)], ret.self, {})

\* with_status was called on a builder that held another status.
C12_Witness ==
    /\ ret.op = "with_status"
    /\ ret.self.exit_status # None
    /\ ret.self.exit_status # Some(ret.input)
    /\ ret.builder.exit_status = Some(ret.input)

\* C13: output() leaves the command as it is, so it can be called again;
\* every call appends one entry with the program and arguments the command
\* has at that call and returns what the registry holds for them at that
\* call: the first matching definition's result, or the default.
C13_OutputAgain ==
    [][ret'.op = "output" =>
          /\ cmd' = cmd
          /\ cmd' # None
          /\ Len(executed') = Len(executed) + 1
          /\ executed'[Len(executed')].program = cmd'[1].program
          /\ SameArgs(executed'[Len(executed')].args, cmd'[1].args)
          /\ IF Registered(cmd[1].program, cmd[1].args)
             THEN Answers(ret', registry[FirstIndex(cmd[1].program, cmd[1].args)])
             ELSE IsDefault(ret')]_vars

\* One command executed twice, the second call answered by a mock.
C13_Witness ==
    /\ Outputs
    /\ Len(executed) = 2
    /\ executed[1] = executed[2]
    /\ cmd # None
    /\ cmd[1].program = executed[2].program
    /\ cmd[1].args = executed[2].args
    /\ Registered(cmd[1].program, cmd[1].args)
    /\ ~IsDefault(ret)

IsPrefix(xs, ys) ==
    /\ Len(xs) <= Len(ys)
    /\ \A k \in 1..Len(xs) : xs[k] = ys[k]

\* C14: whatever the operation, the recorder's log before it is a prefix of
\* the log after it (nothing in it is changed, removed, reordered or
\* cleared), and every query was_command_executed answered true before is
\* answered true after.
C14_RecorderAppendOnly ==
    [][/\ IsPrefix(executed, executed')
       /\ executed' # executed =>
             \A pieces \in Pieces \ {<<>>}, d \in Opt(fixture.dirs) :
                 was_command_executed(pieces, d).value
                     => (was_command_executed(pieces, d).value)']_vars

\* A query answered true whose invocation is no longer the latest one.
C14_Witness ==
    /\ Asked
    /\ ~ret.panicked
    /\ ret.value
    /\ Len(executed) = 2
    /\ executed[1].program = ret.pieces[1]
    /\ SameArgs(executed[1].args, SubSeq(ret.pieces, 2, Len(ret.pieces)))
    /\ ~SameArgs(executed[2].args, executed[1].args)

\* C15: whatever the operation, the registry before it is a prefix of the
\* registry after it; when it grows it grows by one definition, at the end,
\* with the fields of a builder, and no builder's register() would have
\* failed in its place.
C15_RegistryAppendOnly ==
    [][\/ registry' = registry
       \/ /\ IsPrefix(registry, registry')
          /\ Len(registry') = Len(registry) + 1
          /\ \E b \in Builders : SameExcept(registry'[Len(registry')], b, {})
          /\ \A b \in Builders : ENABLED Register(b)]_vars

\* The same definition registered twice, both kept, and a command executed.
C15_Witness ==
    /\ Len(registry) = 2
    /\ registry[1] = registry[2]
    /\ executed # <<>>
    /\ Outputs

\* C20: a step that changes the registry changes neither the recorder nor
\* the command; a step that changes the recorder (output, with its lookup)
\* changes neither the registry nor the command; was_command_executed
\* changes neither store, and after it has panicked on empty pieces both
\* stores are as before and register, output and the query still work.
C20_Frames ==
    [][/\ registry' # registry => (executed' = executed /\ cmd' = cmd)
       /\ (executed' # executed \/ ret'.op = "output") =>
             (registry' = registry /\ cmd' = cmd)
       /\ ret'.op = "was_command_executed" =>
             /\ registry' = registry
             /\ executed' = executed
             /\ cmd' = cmd
             /\ get_executed_commands' = get_executed_commands
             /\ ret'.panicked <=> (ret'.pieces = <<>>)
             /\ ret'.panicked =>
                   /\ Len(registry) < MaxRegistry =>
                         (\A b \in Builders : ENABLED Register(b))'
                   /\ (cmd # None /\ Len(executed) < MaxExecuted) =>
                         (ENABLED Command_output)'
                   /\ \A pieces \in Pieces \ {<<>>} :
                         (~was_command_executed(pieces, None).panicked)']_vars

\* The query has panicked on empty pieces with both stores filled.
C20_Witness ==
    /\ Asked
    /\ ret.pieces = <<>>
    /\ ret.panicked
    /\ registry # <<>>
    /\ executed # <<>>

(***************************************************************************)
(* Threads.  Each thread makes one call; a call is the steps of its code,  *)
(* one step for each taking of a lock and one for what is done under it,   *)
(* the guard being dropped at the end of the statement (push, clone) or of *)
(* the function (find_mock).                                               *)
(***************************************************************************)
ThreadMocks ==
    [name     |-> "threads",
     programs |-> {"echo"},
     argLists |-> {<<"hello">>},
     dirs     |-> {},
     results  |-> {[exit_status |-> Some(1), stdout |-> Some("WORLD"),
                    stderr |-> Some("failed")]}]

\* Mutant: lock() does not wait.
lock_unguarded(l) == TRUE

\* Mutex::lock returns when no thread holds the guard.
lock_free(l) == locks[l] = None

lock(l, t) == [locks EXCEPT ![l] = Some(t)]

drop_guard(l) == [locks EXCEPT ![l] = None]

Holds(t, l) == locks[l] = Some(t)

\* Mutant: the snapshot is a handle on the recorder's own Vec.
clone_shared(v) == [shared |-> TRUE, items |-> v]

\* Vec::clone: a Vec of its own with the elements v has now.
clone(v) == [shared |-> FALSE, items |-> v]

\* What reading a snapshot gives.
Items(snapshot) == IF snapshot.shared THEN executed ELSE snapshot.items

Calls ==
    {[op |-> "register", builder |-> b] : b \in Builders}
    \cup {[op |-> "output", program |-> p, args |-> as] :
              p \in fixture.programs, as \in ArgLists}
    \cup {[op |-> "was_command_executed", pieces |-> ps, current_dir |-> d] :
              ps \in Pieces, d \in Opt(fixture.dirs)}
    \cup {[op |-> "get_executed_commands"]}

Entry(op) ==
    CASE op = "register"              -> "register_lock"
      [] op = "output"                -> "record_lock"
      [] op = "was_command_executed"  -> "split_first"
      [] op = "get_executed_commands" -> "snapshot_lock"

At(t, pc) == threads[t].pc = pc

Goto(t, pc, local) ==
    [threads EXCEPT ![t] = [pc |-> pc, call |-> @.call, local |-> local]]

Terminal(t) == threads[t].pc \in {"done", "panicked"}

Started(t) == threads[t].pc \notin {"idle", "done", "panicked"}

InitThreads ==
    /\ fixture = ThreadMocks
    /\ registry = <<>>
    /\ executed = <<>>
    /\ cmd = None
    /\ ret = NoRet
    /\ locks = Unlocked
    /\ threads = AllIdle

Thread_start(t, call) ==
    /\ At(t, "idle")
    /\ threads' = [threads EXCEPT ![t] =
                      [pc |-> Entry(call.op), call |-> call, local |-> <<>>]]
    /\ UNCHANGED <<fixture, registry, executed, cmd, ret, locks>>

\* register: MOCK_REGISTRY.lock().unwrap()
Register_lock(t) ==
    /\ At(t, "register_lock")
    /\ lock_free("registry")
    /\ locks' = lock("registry", t)
    /\ threads' = Goto(t, "register_push", registry)
    /\ UNCHANGED <<fixture, registry, executed, cmd, ret>>

\* Mutant: the registry's guard is never dropped (mem::forget).
Register_push_leaking(t) ==
    /\ At(t, "register_push")
    /\ registry' = Append(threads[t].local, build(threads[t].call.builder))
    /\ threads' = Goto(t, "done", <<>>)
    /\ UNCHANGED <<fixture, executed, cmd, ret, locks>>

\* register: .push(self.build()); the guard is dropped.
Register_push(t) ==
    /\ At(t, "register_push")
    /\ registry' = Append(threads[t].local, build(threads[t].call.builder))
    /\ locks' = drop_guard("registry")
    /\ threads' = Goto(t, "done", <<>>)
    /\ UNCHANGED <<fixture, executed, cmd, ret>>

\* output, record_executed_command: EXECUTED_COMMANDS.lock().unwrap()
Record_lock(t) ==
    /\ At(t, "record_lock")
    /\ lock_free("recorder")
    /\ locks' = lock("recorder", t)
    /\ threads' = Goto(t, "record_push", executed)
    /\ UNCHANGED <<fixture, registry, executed, cmd, ret>>

\* Mutant: the recorder's guard is kept until output returns.
Record_push_holding(t) ==
    /\ At(t, "record_push")
    /\ executed' = Append(threads[t].local,
                          record_executed_command(threads[t].call.program,
                                                  threads[t].call.args)[Len(executed) + 1])
    /\ threads' = Goto(t, "find_lock", <<>>)
    /\ UNCHANGED <<fixture, registry, cmd, ret, locks>>

\* output, record_executed_command: .push(cmd); the guard is dropped.
Record_push(t) ==
    /\ At(t, "record_push")
    /\ executed' = Append(threads[t].local,
                          record_executed_command(threads[t].call.program,
                                                  threads[t].call.args)[Len(executed) + 1])
    /\ locks' = drop_guard("recorder")
    /\ threads' = Goto(t, "find_lock", <<>>)
    /\ UNCHANGED <<fixture, registry, cmd, ret>>

\* output, find_mock: let mocks = MOCK_REGISTRY.lock().unwrap()
Find_lock(t) ==
    /\ At(t, "find_lock")
    /\ lock_free("registry")
    /\ locks' = lock("registry", t)
    /\ threads' = Goto(t, "find_scan", <<>>)
    /\ UNCHANGED <<fixture, registry, executed, cmd, ret>>

\* Mutant: the scan sees none of the registered definitions.
Find_scan_blind(t) ==
    /\ At(t, "find_scan")
    /\ locks' = drop_guard("registry")
    /\ threads' = Goto(t, "done",
                       LET r == synthesize(None)
                       IN  [op |-> "output", ok |-> TRUE,
                            status |-> exit_code(r.exit_status),
                            stdout |-> r.stdout, stderr |-> r.stderr])
    /\ UNCHANGED <<fixture, registry, executed, cmd, ret>>

\* output, find_mock: the scan; mocks is dropped at the return, and output
\* makes its result of what was found.
Find_scan(t) ==
    /\ At(t, "find_scan")
    /\ locks' = drop_guard("registry")
    /\ threads' = Goto(t, "done", output(threads[t].call.program, threads[t].call.args))
    /\ UNCHANGED <<fixture, registry, executed, cmd, ret>>

\* was_command_executed: pieces.split_first().unwrap()
Query_split_first(t) ==
    /\ At(t, "split_first")
    /\ threads' = IF split_first(threads[t].call.pieces) = None
                  THEN Goto(t, "panicked", <<>>)
                  ELSE Goto(t, "snapshot_lock", <<>>)
    /\ UNCHANGED <<fixture, registry, executed, cmd, ret, locks>>

\* get_executed_commands: EXECUTED_COMMANDS.lock().unwrap()
Snapshot_lock(t) ==
    /\ At(t, "snapshot_lock")
    /\ lock_free("recorder")
    /\ locks' = lock("recorder", t)
    /\ threads' = Goto(t, "snapshot_clone", <<>>)
    /\ UNCHANGED <<fixture, registry, executed, cmd, ret>>

\* get_executed_commands: .clone(); the guard is dropped.
Snapshot_clone(t) ==
    /\ At(t, "snapshot_clone")
    /\ locks' = drop_guard("recorder")
    /\ threads' = Goto(t, IF threads[t].call.op = "was_command_executed"
                          THEN "any" ELSE "snapshot_returned",
                       clone(executed))
    /\ UNCHANGED <<fixture, registry, executed, cmd, ret>>

\* was_command_executed: .iter().any(..) over the snapshot.
Query_any(t) ==
    /\ At(t, "any")
    /\ LET sf == split_first(threads[t].call.pieces)[1]
       IN  threads' = Goto(t, "done",
                           [panicked |-> FALSE,
                            value    |-> any_from(Items(threads[t].local), 1,
                                                  sf.first, sf.rest,
                                                  threads[t].call.current_dir)])
    /\ UNCHANGED <<fixture, registry, executed, cmd, ret, locks>>

\* The caller of get_executed_commands owns the Vec it was given: it clears
\* it.
Caller_clears(t) ==
    /\ At(t, "snapshot_returned")
    /\ IF threads[t].local.shared
       THEN /\ executed' = <<>>
            /\ threads' = Goto(t, "done", threads[t].local)
       ELSE /\ executed' = executed
            /\ threads' = Goto(t, "done", [threads[t].local EXCEPT !.items = <<>>])
    /\ UNCHANGED <<fixture, registry, cmd, ret, locks>>

\* The steps of a call that has been started.
Step(t) ==
    \/ Register_lock(t)
    \/ Register_push(t)
    \/ Record_lock(t)
    \/ Record_push(t)
    \/ Find_lock(t)
    \/ Find_scan(t)
    \/ Query_split_first(t)
    \/ Snapshot_lock(t)
    \/ Snapshot_clone(t)
    \/ Query_any(t)
    \/ Caller_clears(t)

NextThreads ==
    \/ \E t \in Threads, call \in Calls : Thread_start(t, call)
    \/ \E t \in Threads : Register_lock(t)
    \/ \E t \in Threads : Register_push(t)
    \/ \E t \in Threads : Record_lock(t)
    \/ \E t \in Threads : Record_push(t)
    \/ \E t \in Threads : Find_lock(t)
    \/ \E t \in Threads : Find_scan(t)
    \/ \E t \in Threads : Query_split_first(t)
    \/ \E t \in Threads : Snapshot_lock(t)
    \/ \E t \in Threads : Snapshot_clone(t)
    \/ \E t \in Threads : Query_any(t)
    \/ \E t \in Threads : Caller_clears(t)

SpecThreads == InitThreads /\ [][NextThreads]_vars

\* The scheduler lets every thread that can take a step take one.
SpecThreadsFair == SpecThreads /\ \A t \in Threads : WF_vars(Step(t))

\* The threads whose push into the recorder (the registry) is done.
Recorded == {t \in Threads : /\ threads[t].call.op = "output"
                             /\ threads[t].pc \in {"find_lock", "find_scan", "done"}}

Registering == {t \in Threads : /\ threads[t].call.op = "register"
                                /\ threads[t].pc = "done"}

EntryOf(t) ==
    [program |-> threads[t].call.program, args |-> threads[t].call.args,
     current_dir |-> None]

\* C16: no thread holds both locks; a thread in output() has given the
\* recorder's lock back when it asks for the registry's; a lock is held only
\* by a thread in the statement that took it; and as long as a call is
\* under way some thread that is in a call can take a step.
C16_OneLockAtATime ==
    /\ \A t \in Threads :
          /\ ~(Holds(t, "registry") /\ Holds(t, "recorder"))
          /\ At(t, "find_lock") => ~Holds(t, "recorder")
          /\ Holds(t, "registry") => threads[t].pc \in {"register_push", "find_scan"}
          /\ Holds(t, "recorder") => threads[t].pc \in {"record_push", "snapshot_clone"}
          /\ Holds(t, "registry") \/ Holds(t, "recorder") => ENABLED Step(t)
    /\ (\E t \in Threads : Started(t)) =>
          \E t \in Threads : Started(t) /\ ENABLED Step(t)

\* A thread in output() waits for the registry another thread holds, while
\* the recorder is free.
C16_Witness ==
    \E t, u \in Threads :
        /\ At(t, "find_lock")
        /\ Holds(u, "registry")
        /\ ~ENABLED Step(t)
        /\ lock_free("recorder")

\* C17: a thread that reads or writes a store holds that store's lock, and
\* what it has read of the store is still what the store holds; the
\* recorder holds one entry for each output() that has pushed, the entry of
\* that call, and the registry one definition for each register() that has
\* returned; a snapshot is a prefix of the log.
C17_AtomicAppends ==
    /\ \A t \in Threads :
          /\ At(t, "register_push") =>
                (Holds(t, "registry") /\ threads[t].local = registry)
          /\ At(t, "record_push") =>
                (Holds(t, "recorder") /\ threads[t].local = executed)
          /\ At(t, "find_scan") => Holds(t, "registry")
          /\ At(t, "snapshot_clone") => Holds(t, "recorder")
          /\ threads[t].pc \in {"any", "snapshot_returned"} =>
                IsPrefix(Items(threads[t].local), executed)
    /\ Len(executed) = Cardinality(Recorded)
    /\ Len(registry) = Cardinality(Registering)
    /\ \A i \in DOMAIN executed : \E t \in Recorded : executed[i] = EntryOf(t)
    /\ \A i \in DOMAIN registry :
          \E t \in Registering : registry[i] = build(threads[t].call.builder)
    /\ \A t \in Recorded :
          Cardinality({i \in DOMAIN executed : executed[i] = EntryOf(t)})
             = Cardinality({u \in Recorded : EntryOf(u) = EntryOf(t)})
    /\ \A t \in Registering :
          Cardinality({i \in DOMAIN registry :
                          registry[i] = build(threads[t].call.builder)})
             = Cardinality({u \in Registering :
                               threads[u].call.builder = threads[t].call.builder})

\* Every thread is in an output() call; one is about to push under the
\* recorder's lock and another waits for that lock.
C17_Witness ==
    /\ \A t \in Threads : threads[t].call.op = "output"
    /\ \E t, u \in Threads :
          /\ At(t, "record_push")
          /\ At(u, "record_lock")
          /\ ~ENABLED Step(u)

\* C18: the snapshot a clone gives is the log as it is then, and the log is
\* left as it is; a snapshot that has been returned reads the same whatever
\* is recorded afterwards; and when its owner changes it, the recorder and
\* the other threads' snapshots stay as they are.
C18_SnapshotIsCopy ==
    [][\A t \in Threads :
          /\ (At(t, "snapshot_clone") /\ ~(At(t, "snapshot_clone"))') =>
                /\ (Items(threads[t].local))' = executed
                /\ executed' = executed
          /\ (threads[t].pc \in {"any", "snapshot_returned"}
                /\ threads'[t].pc = threads[t].pc) =>
                (Items(threads[t].local))' = Items(threads[t].local)
          /\ (At(t, "snapshot_returned") /\ ~(At(t, "snapshot_returned"))') =>
                /\ executed' = executed
                /\ (Items(threads[t].local))' = <<>>]_vars

\* A snapshot has been returned and an invocation recorded after it.
C18_Witness ==
    \E t \in Threads :
        /\ At(t, "snapshot_returned")
        /\ Len(Items(threads[t].local)) < Len(executed)

Rank(pc) ==
    CASE pc = "idle" -> 0
      [] pc \in {"register_lock", "record_lock", "split_first"} -> 1
      [] pc \in {"register_push", "record_push", "snapshot_lock"} -> 2
      [] pc \in {"find_lock", "snapshot_clone"} -> 3
      [] pc \in {"find_scan", "any", "snapshot_returned"} -> 4
      [] pc \in {"done", "panicked"} -> 5

\* C19: every call that has been started comes to its end (it returns, or
\* panics on empty pieces); a thread that cannot take a step is waiting for
\* one lock; a thread whose call has ended holds no lock; and no step takes
\* a call back to an earlier statement.
C19_EveryCallCompletes ==
    /\ \A t \in Threads : Started(t) ~> Terminal(t)
    /\ [](\A t \in Threads :
             /\ (Started(t) /\ ~ENABLED Step(t)) =>
                   \/ threads[t].pc \in {"register_lock", "find_lock"}
                         /\ ~lock_free("registry")
                   \/ threads[t].pc \in {"record_lock", "snapshot_lock"}
                         /\ ~lock_free("recorder")
             /\ ~Started(t) => (~Holds(t, "registry") /\ ~Holds(t, "recorder")))
    /\ [][\A t \in Threads :
             threads'[t] # threads[t] =>
                 Rank(threads'[t].pc) > Rank(threads[t].pc)]_vars

\* A snapshot call waits for the recorder, which a thread in output()
\* holds.
C19_Witness ==
    \E t, u \in Threads :
        /\ At(t, "snapshot_lock")
        /\ At(u, "record_push")
        /\ Holds(u, "recorder")
        /\ ~ENABLED Step(t)

\* Thread u has returned from register() and thread t has not yet started
\* a call.
ReturnedBefore(u, t) ==
    /\ threads[u].call.op = "register"
    /\ At(u, "done")
    /\ At(t, "idle")

\* Thread t has returned from an output() with the signature u registered.
OutputOfRegistered(t, u) ==
    /\ threads[u].call.op = "register"
    /\ threads[t].call.op = "output"
    /\ At(t, "done")
    /\ threads[t].call.program = threads[u].call.builder.program
    /\ SameArgs(threads[t].call.args, threads[u].call.builder.args)

\* C21: when a register() for a signature has returned before a thread
\* starts its output() with that signature, the output() returns the
\* result of the first definition registered for the signature, not the
\* default; and every output() that has returned, whatever it returned,
\* has its invocation in the recorder.
C21_RegisteredIsVisible ==
    /\ \A t, u \in Threads :
          [](ReturnedBefore(u, t) =>
                [](OutputOfRegistered(t, u) =>
                      /\ Registered(threads[t].call.program, threads[t].call.args)
                      /\ Answers(threads[t].local,
                                 registry[FirstIndex(threads[t].call.program,
                                                     threads[t].call.args)])
                      /\ ~IsDefault(threads[t].local)))
    /\ [](\A t \in Threads :
             (threads[t].call.op = "output" /\ At(t, "done")) =>
                 \E i \in DOMAIN executed : executed[i] = EntryOf(t))

\* An output() of a registered signature has returned the mock's result
\* and is recorded.
C21_Witness ==
    \E t, u \in Threads :
        /\ At(u, "done")
        /\ OutputOfRegistered(t, u)
        /\ ~IsDefault(threads[t].local)
        /\ executed = <<EntryOf(t)>>

\* An output() that overlapped the register() of its signature returned the
\* default.
C21_OverlapMisses ==
    \E t, u \in Threads :
        /\ At(u, "done")
        /\ OutputOfRegistered(t, u)
        /\ IsDefault(threads[t].local)
        /\ executed = <<EntryOf(t)>>

\* C22: the state before and the state after a registration are two runs
\* with the same invocations and different registrations: every query
\* was_command_executed is answered the same in both, the log is the same,
\* and an output() of any signature would record the same in both; and an
\* answer given is the answer the log alone gives.
C22_VerificationIgnoresRegistry ==
    [][/\ registry' # registry =>
             /\ executed' = executed
             /\ \A pieces \in Pieces, d \in Opt(fixture.dirs) :
                   (was_command_executed(pieces, d))'
                       = was_command_executed(pieces, d)
             /\ \A p \in fixture.programs, as \in ArgLists :
                   (record_executed_command(p, as))'
                       = record_executed_command(p, as)
       /\ (ret'.op = "was_command_executed" /\ ~ret'.panicked) =>
             (ret'.value <=> InLog(ret'.pieces, ret'.current_dir))]_vars

\* A query answered true for an invocation no definition matches, asked
\* with other definitions registered.
C22_Witness ==
    /\ Asked
    /\ ~ret.panicked
    /\ ret.value
    /\ ~Registered(ret.pieces[1], SubSeq(ret.pieces, 2, Len(ret.pieces)))
    /\ Len(registry) = 2
    /\ registry[1] # registry[2]

=============================================================================
